---- MODULE Spec2Model ----
(***************************************************************************)
(* A model of lame_walker.py: one ConverterProducer process that streams   *)
(* one batch per non-empty input directory followed by one SENTINEL per    *)
(* worker through a bounded multiprocessing queue, N ConverterConsumer     *)
(* processes that run the per-file convert protocol (skip if complete,     *)
(* remove stale artifacts, faad, lame or copy into a .wrk file, rename),   *)
(* one single-slot _StateQueue per consumer, and the producer's polling of *)
(* these queues (update_worker_states / handle_states / show_errors).      *)
(*                                                                         *)
(* A path is a triple <<dir, base, ext>>: os.path.splitext and             *)
(* os.path.join are the projections and the constructor of that triple.    *)
(* The external tools (faad, lame, shutil.copy2) are nondeterministic      *)
(* choices over the outcomes they can produce.                             *)
(***************************************************************************)
EXTENDS Integers, Sequences, FiniteSets, TLC

\* ---------------------------------------------------------------- bounds
MaxWorkers == 2

MaxQueue == 2

\* the snapshots one worker sends to its _StateQueue
MaxSends == 3

\* the larger height and width of the terminal window
MaxWin == 3

\* the largest height and width of the text the dashboard renders
MaxPad == 5

\* ------------------------------------------------------- program constants
SENTINEL == "SENTINEL"

LAME_EXT == {"mp3", "wav"}

FAAD_EXT == {"m4a"}

TRANS_EXT == LAME_EXT \cup FAAD_EXT

IMAGE_EXT == {"jpg", "png", "pdf"}

\* ConverterConsumer.extension, without the dot
extension == "wrk"

\* ------------------------------------------------------------ input trees
\* What os.walk(indir) yields, top down: one entry per directory that holds
\* files, with the directory's relative path and its file names in listing
\* order.  A file name is <<base, ext>>.
Batch(d, fs) == [dir |-> d, files |-> fs]

Trees ==
  { << >>,
    << Batch("a", << <<"1", "mp3">> >>) >>,
    << Batch("a", << <<"1", "mp3">>, <<"2", "png">> >>),
       Batch("a/b", << <<"3", "mp3">> >>) >>,
    << Batch("a", << <<"1", "mp3">>, <<"1", "png">> >>) >>,
    << Batch("a", << <<"1", "png">>, <<"1", "mp3">> >>) >>,
    << Batch("a", << <<"1", "png">>, <<"2", "mp3">> >>) >>,
    << Batch("a", << <<"1", "m4a">>, <<"2", "mp3">> >>) >>,
    << Batch("a", << <<"1", "mp3">>, <<"1", "m4a">> >>) >>,
    << Batch("a", << <<"1", "png">>, <<"2", "txt">> >>) >> }

\* The input files of a tree, as <<dir, base, ext>>.
FilesOf(t) ==
  UNION { { <<t[i].dir, t[i].files[j][1], t[i].files[j][2]>> :
              j \in 1..Len(t[i].files) } : i \in 1..Len(t) }

\* -------------------------------------------------------------- the paths
Parent(d) == IF d = "a/b" THEN "a" ELSE "."

\* The directories os.makedirs(d) creates when none exists: d and its parents.
WithParents(d) == {d, Parent(d), Parent(Parent(d))}

WrkOf(f) == <<f[1], f[2], extension>>

WavOf(f) == <<f[1], f[2], "wav">>

Mp3Of(f) == <<f[1], f[2], "mp3">>

\* The path the output of f is renamed to (outf at line 542).
FinalOf(f) == IF f[3] \in TRANS_EXT THEN Mp3Of(f) ELSE f

IsFile(fl, p) == p \in DOMAIN fl

Unlink(fl, p) == [q \in (DOMAIN fl) \ {p} |-> fl[q]]

WriteFile(fl, p, c) == [q \in (DOMAIN fl) \cup {p} |-> IF q = p THEN c ELSE fl[q]]

Rename(fl, src, dst) ==
  [q \in ((DOMAIN fl) \ {src}) \cup {dst} |-> IF q = dst THEN fl[src] ELSE fl[q]]

\* ------------------------------------------------------------------ state
VARIABLES
  args,             \* dry_run, verbose, clean, num_workers, queue_size
  indir,            \* "ok", "missing" (no such directory), "same" (is outdir)
  tree,             \* what os.walk(indir) yields
  dirs,             \* the directories that exist under (and including) outdir
  files,            \* the files that exist under outdir: path -> "part" | "full"
  files0,           \* history: the files under outdir when the run started
  files_q,          \* the work queue: indexes into the producer's item stream
  pidx,             \* the producer's position in filenames()
  ppc,              \* the producer: "init" | "loop" | "drain" | "exited" | "crashed" | "failed"
  num_todo,         \* ConverterProducer.num_todo
  num_done,         \* ConverterProducer.num_done
  worker_states,    \* ConverterProducer.worker_states: worker -> <<snapshot>> or << >>
  finished_workers, \* ConverterProducer.finished_workers
  perrors,          \* ConverterProducer.errors
  printed,          \* what show_errors has printed
  info_q,           \* one _StateQueue per worker
  wpc,              \* each worker: "idle" | "get" | "makedirs" | "file" | "finish" | "done"
  item,             \* each worker's dequeued item (stream index, 0: none)
  fidx,             \* each worker's position in zip(infilenames, outfilenames)
  transcodes_done,  \* ConverterConsumer.transcodes_done
  finished,         \* ConverterConsumer.finished
  errors,           \* ConverterConsumer.errors
  rc,               \* each worker's last proc.returncode
  delivered,        \* history: how often each item of the stream was dequeued
  oplog,            \* history: per input file, the operations performed for it
  buffer,           \* one _StateQueue: the items put and not yet written to the pipe
  pipe,             \* one _StateQueue: the items in the pipe, which empty() and get see
  sem,              \* one _StateQueue: the slots of the bounded semaphore in use
  state_lock,       \* one _StateQueue: the holder of _state_lock, "free" | "writer"
  spc,              \* the writer inside put: "idle" | "clear" | "put"
  sent,             \* history: the number of the last snapshot whose put returned
  received,         \* history: the snapshots the reader's get(False) returned
  last_get,         \* history: <<result of the last get (0: queue.Empty), sent then>>
  win_h,            \* ConverterProducer.win_h: the height of the curses window
  win_w,            \* ConverterProducer.win_w
  pad_h,            \* handle_states: the number of lines of the rendered text
  pad_w,            \* handle_states: the length of its longest line
  row,              \* ConverterProducer.row: the first line of the pad shown
  col               \* ConverterProducer.col: the first column of the pad shown

vars == << args, indir, tree, dirs, files, files0, files_q, pidx, ppc, num_todo, num_done,
           worker_states, finished_workers, perrors, printed, info_q, wpc, item,
           fidx, transcodes_done, finished, errors, rc, delivered, oplog,
           buffer, pipe, sem, state_lock, spc, sent, received, last_get,
           win_h, win_w, pad_h, pad_w, row, col >>

\* the state of the dashboard's viewport
viewport == << win_h, win_w, pad_h, pad_w, row, col >>

\* the state of the one _StateQueue that is followed step by step
mailbox == << buffer, pipe, sem, state_lock, spc, sent, received, last_get >>

\* the state of the pipeline
pipeline == << args, indir, tree, dirs, files, files0, files_q, pidx, ppc, num_todo,
               num_done, worker_states, finished_workers, perrors, printed, info_q, wpc,
               item, fidx, transcodes_done, finished, errors, rc, delivered, oplog >>

Workers == 1..args.num_workers

\* main, line 565: a dry run uses one worker
EffectiveWorkers(dry_run, n) == IF dry_run THEN 1 ELSE n

\* ConverterProducer.checkArgs, line 86
do_curses == ~(args.verbose \/ args.dry_run)

\* ------------------------------------------------ ConverterProducer.filenames
StreamLen == Len(tree) + args.num_workers

Stream(i) == IF i <= Len(tree) THEN tree[i] ELSE SENTINEL

\* `item is SENTINEL`, line 402
IsSentinel(i) == i > Len(tree)

\* ConverterProducer.run, lines 283-286
RECURSIVE CountTrans(_, _)
CountTrans(fs, j) ==
  IF j > Len(fs) THEN 0
  ELSE (IF fs[j][2] \in TRANS_EXT THEN 1 ELSE 0) + CountTrans(fs, j + 1)

RECURSIVE NumTodoFrom(_, _)
NumTodoFrom(t, i) ==
  IF i > Len(t) THEN 0 ELSE CountTrans(t[i].files, 1) + NumTodoFrom(t, i + 1)

NumTodo(t) == NumTodoFrom(t, 1)

\* ------------------------------------------------------------------- Init
\* What an earlier run, finished or killed, can have left for an input file:
\* nothing, a .wrk file, the final file, or (m4a) the faad intermediate.
ArtStates(f) ==
  IF f[3] \in FAAD_EXT THEN {"absent", "wip", "complete", "wavleft"}
  ELSE IF f[3] \in TRANS_EXT \cup IMAGE_EXT THEN {"absent", "wip", "complete"}
  ELSE {"absent"}

ArtPaths(f, s) ==
  CASE s = "wip" -> { <<WrkOf(f), "part">> }
    [] s = "complete" -> { <<FinalOf(f), "full">> }
    [] s = "wavleft" -> { <<WavOf(f), "part">> }
    [] OTHER -> {}

\* The leftovers a run starts from: every file in the same state (a first
\* run, a rerun of a finished or of a killed run), or, in a tree of one
\* directory, one file with a leftover.
ArtChoices(t) ==
  { c \in [FilesOf(t) -> {"absent", "wip", "complete", "wavleft"}] :
      /\ \A f \in FilesOf(t) : c[f] \in ArtStates(f)
      /\ \/ \A f, g \in FilesOf(t) :
               (ArtStates(f) # {"absent"} /\ ArtStates(g) # {"absent"}) => c[f] = c[g]
         \/ Len(t) = 1 /\ Cardinality({ f \in FilesOf(t) : c[f] # "absent" }) <= 1 }

InitFiles(t, c) ==
  LET ps == UNION { ArtPaths(f, c[f]) : f \in FilesOf(t) }
  IN  [p \in { x[1] : x \in ps } |-> (CHOOSE x \in ps : x[1] = p)[2]]

InitDirs(fl, root) ==
  IF DOMAIN fl = {} THEN (IF root THEN {"."} ELSE {})
  ELSE UNION { WithParents(p[1]) : p \in DOMAIN fl }

Init ==
  \E t \in Trees, dry \in BOOLEAN, vrb \in BOOLEAN, cln \in BOOLEAN,
     n \in 1..MaxWorkers, q \in {1, MaxQueue}, ind \in {"ok", "missing", "same"},
     root \in BOOLEAN :
    \E c \in ArtChoices(t) :
      /\ ind # "ok" => t = << >>
      /\ ind = "same" => root
      /\ args = [dry_run |-> dry, verbose |-> vrb, clean |-> cln,
                 num_workers |-> EffectiveWorkers(dry, n), queue_size |-> q]
      /\ indir = ind
      /\ tree = t
      /\ files = InitFiles(t, c)
      /\ files0 = InitFiles(t, c)
      /\ dirs = InitDirs(InitFiles(t, c), root)
      /\ files_q = << >>
      /\ pidx = 1
      /\ ppc = "init"
      /\ num_todo = 0
      /\ num_done = 0
      /\ worker_states = [w \in 1..EffectiveWorkers(dry, n) |-> << >>]
      /\ finished_workers = {}
      /\ perrors = << >>
      /\ printed = << >>
      /\ info_q = [w \in 1..EffectiveWorkers(dry, n) |-> << >>]
      /\ wpc = [w \in 1..EffectiveWorkers(dry, n) |-> "idle"]
      /\ item = [w \in 1..EffectiveWorkers(dry, n) |-> 0]
      /\ fidx = [w \in 1..EffectiveWorkers(dry, n) |-> 0]
      /\ transcodes_done = [w \in 1..EffectiveWorkers(dry, n) |-> 0]
      /\ finished = [w \in 1..EffectiveWorkers(dry, n) |-> FALSE]
      /\ errors = [w \in 1..EffectiveWorkers(dry, n) |-> << >>]
      /\ rc = [w \in 1..EffectiveWorkers(dry, n) |-> 0]
      /\ delivered = [i \in 1..(Len(t) + EffectiveWorkers(dry, n)) |-> 0]
      /\ oplog = [f \in FilesOf(t) |-> << >>]
      /\ buffer = << >>
      /\ pipe = << >>
      /\ sem = 0
      /\ state_lock = "free"
      /\ spc = "idle"
      /\ sent = 0
      /\ received = << >>
      /\ last_get = << 0, 0 >>
      /\ win_h = MaxWin
      /\ win_w = MaxWin
      /\ pad_h = MaxWin
      /\ pad_w = MaxWin
      /\ row = 0
      /\ col = 0

\* ---------------------------------------------- main and checkArgs: start up
\* a checkArgs without the samefile test
SameRootsIgnored == FALSE

\* checkArgs, line 81: os.path.samefile(self.aindir, self.aoutdir)
SameRoots == indir = "same"

\* main builds the queues, the consumers and the producer (whose constructor
\* runs checkArgs), then starts them all; ConverterProducer.run first counts
\* the transcodable inputs.
Start ==
  /\ ppc = "init"
  /\ IF indir = "missing"
       THEN /\ ppc' = "failed"
            /\ UNCHANGED << dirs, wpc, num_todo >>
       ELSE /\ dirs' = dirs \cup {"."}
            /\ IF SameRoots
                 THEN /\ ppc' = "failed"
                      /\ UNCHANGED << wpc, num_todo >>
                 ELSE /\ ppc' = "loop"
                      /\ wpc' = [w \in Workers |-> "get"]
                      /\ num_todo' = NumTodo(tree)
  /\ UNCHANGED mailbox
  /\ UNCHANGED viewport
  /\ UNCHANGED << args, indir, tree, files0, files, files_q, pidx, num_done, worker_states,
                  finished_workers, perrors, printed, info_q, item, fidx,
                  transcodes_done, finished, errors, rc, delivered, oplog >>

\* ------------------------------------------------------- the two queues
\* multiprocessing.Queue.put / get on files_q
QPut(q, x) == Append(q, x)

\* a get that leaves the item in the queue
QGetKeeps(q) == q

QGet(q) == Tail(q)

\* a queue that takes one item more than its capacity
QFullLate(q) == Len(q) > args.queue_size

QFull(q) == Len(q) >= args.queue_size

\* _StateQueue.put: clear the queue, then put the one item
StatePut(q, x) == << x >>

\* ConverterConsumer.send_state_msg
Snapshot(w, td, fin, op, lst) ==
  [pid |-> w, transcodes_done |-> td, finished |-> fin, op |-> op, list |-> lst]

Sent(iq, w, snap) ==
  IF args.verbose THEN iq ELSE [iq EXCEPT ![w] = StatePut(@, snap)]

ErrorRecord(type, file, detail) == [type |-> type, file |-> file, detail |-> detail]

\* ---------------------------------- ConverterProducer: polling the workers
\* update_worker_states: a non-blocking get on every info queue
Updated(ws, iq) == [w \in Workers |-> IF iq[w] # << >> THEN << Head(iq[w]) >> ELSE ws[w]]

Drained(iq) == [w \in Workers |-> IF iq[w] # << >> THEN Tail(iq[w]) ELSE << >>]

\* handle_states, lines 130-132
RECURSIVE SumDone(_, _)
SumDone(ws, w) ==
  IF w > args.num_workers THEN 0
  ELSE (IF ws[w] # << >> THEN ws[w][1].transcodes_done ELSE 0) + SumDone(ws, w + 1)

\* handle_states, lines 133-158: the workers whose 'errors' message is taken
NewlyFinished(ws, fw) ==
  { w \in Workers : /\ ws[w] # << >>
                    /\ ~(ws[w][1].finished /\ w \in fw)
                    /\ ws[w][1].op = "errors" }

RECURSIVE Collected(_, _, _)
Collected(ws, new, w) ==
  IF w > args.num_workers THEN << >>
  ELSE (IF w \in new THEN ws[w][1].list ELSE << >>) \o Collected(ws, new, w + 1)

\* handle_states, lines 174-176: 100.*num_done/num_todo
PercentRaises == num_todo = 0

\* run, line 308
AllFinished(ws) == \A w \in Workers : ws[w] # << >> => ws[w][1].finished

\* update_worker_states, then handle_states; an exception in handle_states
\* ends run through its finally clause (finish_curses, show_errors).
Poll(next) ==
  LET ws == Updated(worker_states, info_q)
      new == NewlyFinished(ws, finished_workers)
  IN  /\ worker_states' = ws
      /\ info_q' = Drained(info_q)
      /\ IF do_curses
           THEN /\ num_done' = SumDone(ws, 1)
                /\ finished_workers' = finished_workers \cup new
                /\ perrors' = perrors \o Collected(ws, new, 1)
                /\ IF PercentRaises
                     THEN /\ ppc' = "crashed"
                          /\ printed' = perrors'
                     ELSE /\ ppc' = next
                          /\ UNCHANGED printed
           ELSE /\ ppc' = next
                /\ UNCHANGED << num_done, finished_workers, perrors, printed >>

AfterPut(nidx) ==
  LET next == IF nidx > StreamLen THEN "drain" ELSE "loop"
  IN  IF do_curses
        THEN Poll(next)
        ELSE /\ ppc' = next
             /\ UNCHANGED << worker_states, info_q, num_done, finished_workers,
                             perrors, printed >>

\* run, lines 292-304: the put is accepted
PPut ==
  /\ ppc = "loop"
  /\ ~QFull(files_q)
  /\ files_q' = QPut(files_q, pidx)
  /\ pidx' = pidx + 1
  /\ AfterPut(pidx + 1)
  /\ UNCHANGED mailbox
  /\ UNCHANGED viewport
  /\ UNCHANGED << args, indir, tree, files0, dirs, files, num_todo, wpc, item, fidx,
                  transcodes_done, finished, errors, rc, delivered, oplog >>

\* a retry that gives the item up: put_succeeded = True after queue.Full
PutFailedSkips(idx) == idx + 1

\* run, lines 299-300: after queue.Full the same item is tried again
PutFailed(idx) == idx

\* run, lines 292-304: the put times out with queue.Full
PFull ==
  /\ ppc = "loop"
  /\ QFull(files_q)
  /\ UNCHANGED files_q
  /\ pidx' = PutFailed(pidx)
  /\ AfterPut(PutFailed(pidx))
  /\ UNCHANGED mailbox
  /\ UNCHANGED viewport
  /\ UNCHANGED << args, indir, tree, files0, dirs, files, num_todo, wpc, item, fidx,
                  transcodes_done, finished, errors, rc, delivered, oplog >>

\* run, lines 306-315: the loop after the stream, and the finally clause
PDrain ==
  /\ ppc = "drain"
  /\ IF AllFinished(worker_states)
       THEN /\ ppc' = "exited"
            /\ printed' = perrors
            /\ UNCHANGED << worker_states, info_q, num_done, finished_workers, perrors >>
       ELSE Poll("drain")
  /\ UNCHANGED mailbox
  /\ UNCHANGED viewport
  /\ UNCHANGED << args, indir, tree, files0, dirs, files, files_q, pidx, num_todo, wpc, item,
                  fidx, transcodes_done, finished, errors, rc, delivered, oplog >>

\* ------------------------------------------------------ the external tools
\* faad writes the .wav or nothing
FaadOutcomes == {"ok", "fail"}

\* lame's exit status and what it leaves at its output path
LameOutcomes ==
  { [rc |-> 0, out |-> "full"], [rc |-> 0, out |-> "none"],
    [rc |-> 1, out |-> "none"], [rc |-> 1, out |-> "part"] }

\* shutil.copy2 copies or raises
CopyOutcomes == {"ok", "raise"}

LameEvent(o) ==
  IF o.rc = 0 THEN (IF o.out = "full" THEN "lame_ok" ELSE "lame_ok_nofile")
  ELSE (IF o.out = "part" THEN "lame_fail_partial" ELSE "lame_fail")

\* ------------------------------------------------- ConverterConsumer.run
CurFile(w) ==
  LET b == tree[item[w]]
  IN  << b.dir, b.files[fidx[w]][1], b.files[fidx[w]][2] >>

\* the except clause, lines 551-555
Except(errs, exc, path) == Append(errs, ErrorRecord("unhandled_exception", path, exc))

\* a skip that counts every file
SkipCountsAll(e) == TRUE

\* line 434: a skipped file is counted if outf is an mp3 or a wav
SkipCounts(e) == e \in LAME_EXT

\* a skip test that looks at outf alone
CompleteOutfOnly(fl, f) == IsFile(fl, f)

\* line 432: the output of f exists already, as outf or as outf_base + '.mp3'
Complete(fl, f) == IsFile(fl, f) \/ IsFile(fl, Mp3Of(f))

StepResult(fl, td, msg, next, log, code) ==
  [files |-> fl, td |-> td, msg |-> msg, next |-> next, log |-> log, rc |-> code]

\* Lines 425-510 and 525-537 for one file f: what the body of the loop does up
\* to the point where the .wrk file is written, given the files fl, the
\* worker's counter td and the outcomes of the tools.  msg is the op of the
\* last state message sent ("nosend": none was sent); next is "continue" (on to
\* the next file), "finish" (go on at line 512) or "raise".
FileStep(fl, f, td, fo, lo, co) ==
  LET e == f[3]
      wrk == << f[1], f[2], extension >>
      wav == WavOf(f)
  IN
  IF Complete(fl, f)
    THEN IF ~args.dry_run /\ SkipCounts(e)
           THEN StepResult(fl, td + 1, "", "continue", << "skip" >>, 0)
           ELSE StepResult(fl, td, "nosend", "continue", << "skip" >>, 0)
    ELSE
      LET do_rm == args.clean \/ ~args.dry_run
          rm1 == IsFile(fl, wrk) /\ do_rm
          fl1 == IF rm1 THEN Unlink(fl, wrk) ELSE fl
          rm2 == e \in FAAD_EXT /\ IsFile(fl1, wav) /\ do_rm
          fl2 == IF rm2 THEN Unlink(fl1, wav) ELSE fl1
          log2 == (IF rm1 THEN << "rm_failed_wrk" >> ELSE << >>)
                    \o (IF rm2 THEN << "rm_failed_wav" >> ELSE << >>)
          msg2 == IF rm1 \/ rm2 THEN "rm_failed" ELSE "nosend"
      IN
      IF args.clean \/ args.dry_run
        THEN StepResult(fl2, td, msg2, "continue", log2, 0)
      ELSE IF e \in TRANS_EXT
        THEN LET fl3 == IF e \in FAAD_EXT /\ fo = "ok"
                          THEN WriteFile(fl2, wav, "full") ELSE fl2
                 inok == e \notin FAAD_EXT \/ IsFile(fl3, wav)
                 o == IF inok THEN lo ELSE [rc |-> 1, out |-> "none"]
                 fl4 == IF o.out = "none" THEN fl3 ELSE WriteFile(fl3, wrk, o.out)
                 log4 == log2 \o (IF e \in FAAD_EXT THEN << "faad_" \o fo >> ELSE << >>)
                              \o << LameEvent(o) >>
             IN  StepResult(fl4, td + 1, "", "finish", log4, o.rc)
      ELSE IF e \in IMAGE_EXT
        THEN IF co = "ok"
               THEN StepResult(WriteFile(fl2, wrk, "full"), td, "copy", "finish",
                               log2 \o << "copy_ok" >>, 0)
               ELSE StepResult(fl2, td, "copy", "raise",
                               log2 \o << "copy_fail", "fault" >>, 0)
      ELSE StepResult(fl2, td, msg2, "continue", log2, 0)

\* The tools the loop body runs for f, with their possible outcomes, as
\* <<faad, lame, copy2>> (a tool that is not run has its first outcome).
ToolRuns(fl, f) ==
  LET nofaad == {"ok"}
      nolame == {[rc |-> 0, out |-> "full"]}
      nocopy == {"ok"}
  IN
  IF Complete(fl, f) \/ args.clean \/ args.dry_run
    THEN nofaad \X nolame \X nocopy
  ELSE IF f[3] \in FAAD_EXT
    THEN ({"ok"} \X LameOutcomes \X nocopy) \cup ({"fail"} \X nolame \X nocopy)
  ELSE IF f[3] \in TRANS_EXT
    THEN nofaad \X LameOutcomes \X nocopy
  ELSE IF f[3] \in IMAGE_EXT
    THEN nofaad \X nolame \X CopyOutcomes
  ELSE nofaad \X nolame \X nocopy

\* the for loop moves on, or ends and the worker is back at files_q.get
Advance(w) ==
  IF fidx[w] < Len(tree[item[w]].files)
    THEN /\ wpc' = [wpc EXCEPT ![w] = "file"]
         /\ fidx' = [fidx EXCEPT ![w] = @ + 1]
         /\ UNCHANGED item
    ELSE /\ wpc' = [wpc EXCEPT ![w] = "get"]
         /\ fidx' = [fidx EXCEPT ![w] = 0]
         /\ item' = [item EXCEPT ![w] = 0]

\* the batch is given up: back to files_q.get
Abandon(w) ==
  /\ wpc' = [wpc EXCEPT ![w] = "get"]
  /\ fidx' = [fidx EXCEPT ![w] = 0]
  /\ item' = [item EXCEPT ![w] = 0]

\* lines 401-421: get an item; a SENTINEL ends the worker, a batch is taken up
\* to the check of its output directory
WGet(w) ==
  /\ wpc[w] = "get"
  /\ files_q # << >>
  /\ LET i == Head(files_q)
     IN  /\ files_q' = QGet(files_q)
         /\ delivered' = [delivered EXCEPT ![i] = @ + 1]
         /\ IF IsSentinel(i)
              THEN /\ finished' = [finished EXCEPT ![w] = TRUE]
                   /\ info_q' = Sent(info_q, w,
                         Snapshot(w, transcodes_done[w], TRUE, "errors", errors[w]))
                   /\ wpc' = [wpc EXCEPT ![w] = "done"]
                   /\ UNCHANGED << item, fidx >>
              ELSE /\ item' = [item EXCEPT ![w] = i]
                   /\ fidx' = [fidx EXCEPT ![w] = 1]
                   /\ UNCHANGED finished
                   /\ IF Stream(i).dir \notin dirs /\ ~args.dry_run /\ ~args.clean
                        THEN /\ wpc' = [wpc EXCEPT ![w] = "makedirs"]
                             /\ info_q' = Sent(info_q, w,
                                   Snapshot(w, transcodes_done[w], FALSE, "mkdir", << >>))
                        ELSE /\ wpc' = [wpc EXCEPT ![w] = "file"]
                             /\ UNCHANGED info_q
  /\ UNCHANGED mailbox
  /\ UNCHANGED viewport
  /\ UNCHANGED << args, indir, tree, files0, dirs, files, pidx, ppc, num_todo, num_done,
                  worker_states, finished_workers, perrors, printed,
                  transcodes_done, errors, rc, oplog >>

\* line 422: os.makedirs(newpath) raises if newpath exists by now
WMakedirs(w) ==
  /\ wpc[w] = "makedirs"
  /\ LET d == tree[item[w]].dir
     IN  IF d \in dirs
           THEN /\ errors' = [errors EXCEPT ![w] = Except(@, "FileExistsError", << d, "", "" >>)]
                /\ Abandon(w)
                /\ UNCHANGED dirs
           ELSE /\ dirs' = dirs \cup WithParents(d)
                /\ wpc' = [wpc EXCEPT ![w] = "file"]
                /\ UNCHANGED << errors, item, fidx >>
  /\ UNCHANGED mailbox
  /\ UNCHANGED viewport
  /\ UNCHANGED << args, indir, tree, files0, files, files_q, pidx, ppc, num_todo, num_done,
                  worker_states, finished_workers, perrors, printed, info_q,
                  transcodes_done, finished, rc, delivered, oplog >>

\* lines 425-510, 525-537: one file up to its .wrk file
WFile(w) ==
  /\ wpc[w] = "file"
  /\ \E t \in ToolRuns(files, CurFile(w)) :
       LET f == CurFile(w)
           r == FileStep(files, f, transcodes_done[w], t[1], t[2], t[3])
       IN  /\ files' = r.files
           /\ transcodes_done' = [transcodes_done EXCEPT ![w] = r.td]
           /\ rc' = [rc EXCEPT ![w] = r.rc]
           /\ oplog' = [oplog EXCEPT ![f] = @ \o r.log]
           /\ info_q' = IF r.msg = "nosend" THEN info_q
                        ELSE Sent(info_q, w, Snapshot(w, r.td, FALSE, r.msg, << >>))
           /\ CASE r.next = "continue" -> Advance(w) /\ UNCHANGED errors
                [] r.next = "finish" ->
                     /\ wpc' = [wpc EXCEPT ![w] = "finish"]
                     /\ UNCHANGED << item, fidx, errors >>
                [] OTHER ->
                     /\ errors' = [errors EXCEPT ![w] = Except(@, "OSError", f)]
                     /\ Abandon(w)
  /\ UNCHANGED mailbox
  /\ UNCHANGED viewport
  /\ UNCHANGED << args, indir, tree, files0, dirs, files_q, pidx, ppc, num_todo, num_done,
                  worker_states, finished_workers, perrors, printed, finished, delivered >>

\* lines 512-549: remove the faad intermediate, then rename the .wrk file to
\* the final path or record a transcode_error
WFinish(w) ==
  /\ wpc[w] = "finish"
  /\ LET f == CurFile(w)
         isfaad == f[3] \in FAAD_EXT
         snap == Snapshot(w, transcodes_done[w], FALSE, "rm_work", << >>)
     IN  /\ info_q' = IF isfaad THEN Sent(info_q, w, snap) ELSE info_q
         /\ IF isfaad /\ ~IsFile(files, WavOf(f))
              THEN /\ errors' = [errors EXCEPT ![w] =
                                   Except(@, "FileNotFoundError", WavOf(f))]
                   /\ oplog' = [oplog EXCEPT ![f] = Append(@, "fault")]
                   /\ Abandon(w)
                   /\ UNCHANGED files
              ELSE LET fl1 == IF isfaad THEN Unlink(files, WavOf(f)) ELSE files
                       log1 == IF isfaad THEN << "rm_work" >> ELSE << >>
                   IN  /\ IF IsFile(fl1, WrkOf(f))
                            THEN /\ files' = Rename(fl1, WrkOf(f), FinalOf(f))
                                 /\ oplog' = [oplog EXCEPT ![f] = @ \o log1 \o << "rename" >>]
                                 /\ UNCHANGED errors
                            ELSE /\ files' = fl1
                                 /\ oplog' = [oplog EXCEPT ![f] =
                                                @ \o log1 \o << "transcode_error" >>]
                                 /\ errors' = [errors EXCEPT ![w] = Append(@,
                                       ErrorRecord("transcode_error", f, "Transcode failed"))]
                       /\ Advance(w)
  /\ rc' = [rc EXCEPT ![w] = 0]
  /\ UNCHANGED mailbox
  /\ UNCHANGED viewport
  /\ UNCHANGED << args, indir, tree, files0, dirs, files_q, pidx, ppc, num_todo, num_done,
                  worker_states, finished_workers, perrors, printed,
                  transcodes_done, finished, delivered >>

\* --------------------------------------------------------- specifications
Next ==
  \/ Start
  \/ PPut
  \/ PFull
  \/ PDrain
  \/ \E w \in Workers : WGet(w)
  \/ \E w \in Workers : WMakedirs(w)
  \/ \E w \in Workers : WFile(w)
  \/ \E w \in Workers : WFinish(w)

Spec == Init /\ [][Next]_vars

\* ------------------------------------------- one _StateQueue, step by step
\* Spec takes a _StateQueue at its word (StatePut).  Here one of them is
\* followed through the steps of the multiprocessing.Queue it extends: put
\* takes a slot of the semaphore and appends to a buffer in the writing
\* process, a feeder thread of that process writes the buffer to the pipe, and
\* empty() and get(False) look at the pipe only.  The writer is one
\* ConverterConsumer (send_state_msg), the reader is the producer
\* (update_worker_states); the snapshots are numbered 1, 2, ... as they are put.
InitMailbox ==
  \E q \in {1, MaxQueue} :
    /\ args = [dry_run |-> FALSE, verbose |-> FALSE, clean |-> FALSE,
               num_workers |-> 1, queue_size |-> q]
    /\ indir = "ok"
    /\ tree = << >>
    /\ files = InitFiles(<< >>, << >>)
    /\ files0 = InitFiles(<< >>, << >>)
    /\ dirs = {"."}
    /\ files_q = << >>
    /\ pidx = 1
    /\ ppc = "loop"
    /\ num_todo = 0
    /\ num_done = 0
    /\ worker_states = << << >> >>
    /\ finished_workers = {}
    /\ perrors = << >>
    /\ printed = << >>
    /\ info_q = << << >> >>
    /\ wpc = << "get" >>
    /\ item = << 0 >>
    /\ fidx = << 0 >>
    /\ transcodes_done = << 0 >>
    /\ finished = << FALSE >>
    /\ errors = << << >> >>
    /\ rc = << 0 >>
    /\ delivered = << 0 >>
    /\ oplog = << >>
    /\ buffer = << >>
    /\ pipe = << >>
    /\ sem = 0
    /\ state_lock = "free"
    /\ spc = "idle"
    /\ sent = 0
    /\ received = << >>
    /\ last_get = << 0, 0 >>
    /\ win_h = MaxWin
    /\ win_w = MaxWin
    /\ pad_h = MaxWin
    /\ pad_w = MaxWin
    /\ row = 0
    /\ col = 0

\* _StateQueue.put, line 34: `with self._state_lock`
SendBegin ==
  /\ spc = "idle"
  /\ sent < MaxSends
  /\ state_lock = "free"
  /\ state_lock' = "writer"
  /\ spc' = "clear"
  /\ UNCHANGED << buffer, pipe, sem, sent, received, last_get >>
  /\ UNCHANGED pipeline
  /\ UNCHANGED viewport

\* _StateQueue.put, lines 35-39: one turn of `while not self.empty()`, which
\* takes an item out of the pipe, or finds the pipe empty and leaves the lock
SendClear ==
  /\ spc = "clear"
  /\ IF pipe # << >>
       THEN /\ pipe' = Tail(pipe)
            /\ sem' = sem - 1
            /\ UNCHANGED << state_lock, spc >>
       ELSE /\ state_lock' = "free"
            /\ spc' = "put"
            /\ UNCHANGED << pipe, sem >>
  /\ UNCHANGED << buffer, sent, received, last_get >>
  /\ UNCHANGED pipeline
  /\ UNCHANGED viewport

\* _StateQueue.put, line 40: super().put blocks until the semaphore has a free
\* slot, then appends the item to the buffer and returns
SendPut ==
  /\ spc = "put"
  /\ sem < args.queue_size
  /\ sem' = sem + 1
  /\ buffer' = Append(buffer, sent + 1)
  /\ sent' = sent + 1
  /\ spc' = "idle"
  /\ UNCHANGED << pipe, state_lock, received, last_get >>
  /\ UNCHANGED pipeline
  /\ UNCHANGED viewport

\* the feeder thread started by super().put: the oldest buffered item is
\* written to the pipe
Feed ==
  /\ buffer # << >>
  /\ pipe' = Append(pipe, Head(buffer))
  /\ buffer' = Tail(buffer)
  /\ UNCHANGED << sem, state_lock, spc, sent, received, last_get >>
  /\ UNCHANGED pipeline
  /\ UNCHANGED viewport

\* update_worker_states, lines 119-124, through _StateQueue.get, lines 42-44:
\* get(False) under _state_lock returns the oldest item of the pipe and frees
\* its slot, or raises queue.Empty
Receive ==
  /\ state_lock = "free"
  /\ IF pipe # << >>
       THEN /\ received' = Append(received, Head(pipe))
            /\ last_get' = << Head(pipe), sent >>
            /\ pipe' = Tail(pipe)
            /\ sem' = sem - 1
       ELSE /\ last_get' = << 0, sent >>
            /\ UNCHANGED << received, pipe, sem >>
  /\ UNCHANGED << buffer, state_lock, spc, sent >>
  /\ UNCHANGED pipeline
  /\ UNCHANGED viewport

NextMailbox ==
  \/ SendBegin
  \/ SendClear
  \/ SendPut
  \/ Feed
  \/ Receive

SpecMailbox == InitMailbox /\ [][NextMailbox]_vars

\* ------------------------------------------- the dashboard's viewport
\* handle_states renders the workers' messages into a text of pad_h lines and
\* pad_w columns, shows the pad from (row, col) in a window of win_h by win_w,
\* and then handles the keys pressed.  What the text holds depends on the
\* messages and the file names, so a refresh may give it any size.
WinSizes == {2, MaxWin}

\* the text has at least its two header lines
PadSizes == 2..MaxPad

\* the pipeline and the _StateQueue at rest
IdlePipeline ==
  /\ args = [dry_run |-> FALSE, verbose |-> FALSE, clean |-> FALSE,
             num_workers |-> 1, queue_size |-> 1]
  /\ indir = "ok"
  /\ tree = << >>
  /\ files = InitFiles(<< >>, << >>)
  /\ files0 = InitFiles(<< >>, << >>)
  /\ dirs = {"."}
  /\ files_q = << >>
  /\ pidx = 1
  /\ ppc = "loop"
  /\ num_todo = 0
  /\ num_done = 0
  /\ worker_states = << << >> >>
  /\ finished_workers = {}
  /\ perrors = << >>
  /\ printed = << >>
  /\ info_q = << << >> >>
  /\ wpc = << "get" >>
  /\ item = << 0 >>
  /\ fidx = << 0 >>
  /\ transcodes_done = << 0 >>
  /\ finished = << FALSE >>
  /\ errors = << << >> >>
  /\ rc = << 0 >>
  /\ delivered = << 0 >>
  /\ oplog = << >>
  /\ buffer = << >>
  /\ pipe = << >>
  /\ sem = 0
  /\ state_lock = "free"
  /\ spc = "idle"
  /\ sent = 0
  /\ received = << >>
  /\ last_get = << 0, 0 >>

\* init_curses, lines 251-255
InitViewport ==
  /\ IdlePipeline
  /\ win_h \in WinSizes
  /\ win_w \in WinSizes
  /\ pad_h = win_h
  /\ pad_w = win_w
  /\ row = 0
  /\ col = 0

\* handle_states, lines 184-208: a new text is measured and drawn
Refresh ==
  /\ pad_h' \in PadSizes
  /\ pad_w' \in PadSizes
  /\ UNCHANGED << win_h, win_w, row, col >>
  /\ UNCHANGED pipeline
  /\ UNCHANGED mailbox

\* lines 213-214: KEY_DOWN or 'j'
KeyDown ==
  /\ row' = IF row < pad_h - win_h THEN row + 1 ELSE row
  /\ UNCHANGED << win_h, win_w, pad_h, pad_w, col >>
  /\ UNCHANGED pipeline
  /\ UNCHANGED mailbox

\* lines 216-217: KEY_UP or 'k'
KeyUp ==
  /\ row' = IF row > 0 THEN row - 1 ELSE row
  /\ UNCHANGED << win_h, win_w, pad_h, pad_w, col >>
  /\ UNCHANGED pipeline
  /\ UNCHANGED mailbox

\* lines 219-220: KEY_RIGHT or 'l'
KeyRight ==
  /\ col' = IF col < pad_w - win_w THEN col + 1 ELSE col
  /\ UNCHANGED << win_h, win_w, pad_h, pad_w, row >>
  /\ UNCHANGED pipeline
  /\ UNCHANGED mailbox

\* lines 222-223: KEY_LEFT or 'h'
KeyLeft ==
  /\ col' = IF col > 0 THEN col - 1 ELSE col
  /\ UNCHANGED << win_h, win_w, pad_h, pad_w, row >>
  /\ UNCHANGED pipeline
  /\ UNCHANGED mailbox

Min(a, b) == IF a <= b THEN a ELSE b

Max(a, b) == IF a >= b THEN a ELSE b

\* lines 225-226: KEY_NPAGE
KeyNPage ==
  /\ row' = Min(row + win_h, pad_h - win_h)
  /\ UNCHANGED << win_h, win_w, pad_h, pad_w, col >>
  /\ UNCHANGED pipeline
  /\ UNCHANGED mailbox

\* lines 228-229: KEY_PPAGE
KeyPPage ==
  /\ row' = Max(row - win_h, 0)
  /\ UNCHANGED << win_h, win_w, pad_h, pad_w, col >>
  /\ UNCHANGED pipeline
  /\ UNCHANGED mailbox

\* lines 231-232: KEY_HOME
KeyHome ==
  /\ row' = 0
  /\ UNCHANGED << win_h, win_w, pad_h, pad_w, col >>
  /\ UNCHANGED pipeline
  /\ UNCHANGED mailbox

\* lines 234-235: KEY_END
KeyEnd ==
  /\ row' = pad_h - win_h
  /\ UNCHANGED << win_h, win_w, pad_h, pad_w, col >>
  /\ UNCHANGED pipeline
  /\ UNCHANGED mailbox

NextViewport ==
  \/ Refresh
  \/ KeyDown
  \/ KeyUp
  \/ KeyRight
  \/ KeyLeft
  \/ KeyNPage
  \/ KeyPPage
  \/ KeyHome
  \/ KeyEnd

SpecViewport == InitViewport /\ [][NextViewport]_vars

\* ------------------------------------------------------------ vocabulary
AllWorkersDone == \A w \in Workers : wpc[w] = "done"

\* a run that converts: neither --dry-run nor --clean
Converting == ~args.dry_run /\ ~args.clean

Recognised(f) == f[3] \in TRANS_EXT \cup IMAGE_EXT

Range(q) == { q[k] : k \in 1..Len(q) }

RECURSIVE Count(_, _)
Count(q, S) ==
  IF q = << >> THEN 0 ELSE (IF Head(q) \in S THEN 1 ELSE 0) + Count(Tail(q), S)

\* the events of a file's log that end its handling
TerminalEvents == {"skip", "rename", "transcode_error", "fault"}

\* an invocation of lame or of shutil.copy2
AttemptEvents ==
  {"lame_ok", "lame_ok_nofile", "lame_fail", "lame_fail_partial", "copy_ok", "copy_fail"}

\* a tool that did not do its work
ToolFailures == {"lame_ok_nofile", "lame_fail", "lame_fail_partial", "faad_fail", "copy_fail"}

FaultFree == \A f \in FilesOf(tree) : Count(oplog[f], ToolFailures) = 0

RECURSIVE SumTranscodes(_)
SumTranscodes(w) ==
  IF w > args.num_workers THEN 0 ELSE transcodes_done[w] + SumTranscodes(w + 1)

RECURSIVE AllErrors(_)
AllErrors(w) == IF w > args.num_workers THEN << >> ELSE errors[w] \o AllErrors(w + 1)

\* ------------------------------------------------------------------ claims

\* C1: the pipeline never deadlocks: no reachable state has a worker blocked
\* forever on the work queue, that is, waiting in files_q.get on an empty queue
\* after the producer has ended and can enqueue nothing more.
C1_NoWorkerBlockedForever ==
  \A w \in Workers :
    ~(wpc[w] = "get" /\ files_q = << >> /\ ppc \in {"exited", "crashed"})

\* C2: the aggregator (dashboard mode) leaves its polling loop and prints the
\* errors only when every one of the num_workers workers has delivered a
\* snapshot with finished = true, never while a worker is still running or has
\* not reported.
C2_ExitOnlyWhenAllFinished ==
  (do_curses /\ ppc = "exited") =>
    \A w \in Workers : /\ worker_states[w] # << >>
                       /\ worker_states[w][1].finished
                       /\ wpc[w] = "done"

\* C3: in a converting run every file (of a recognised kind) of every dequeued
\* batch has exactly one terminal outcome once the workers are through: skipped
\* as complete, finalized, a recorded transcode failure, or a recorded fault.
C3_OneOutcomePerFile ==
  (AllWorkersDone /\ Converting) =>
    \A f \in FilesOf(tree) : Recognised(f) => Count(oplog[f], TerminalEvents) = 1

\* C4: the step that finalizes a file creates the final path if and only if
\* the temporary path exists and the tool reported success (exit status 0).
C4_RenameIffToolSuccess ==
  [][ \A w \in Workers :
        (wpc[w] = "finish" /\ wpc'[w] # "finish") =>
          ( (FinalOf(CurFile(w)) \in DOMAIN files')
              <=> (WrkOf(CurFile(w)) \in DOMAIN files /\ rc[w] = 0) ) ]_vars

\* C5: a final output path only ever holds a fully written file: it is absent
\* or complete, never half-written.
C5_FinalNeverHalfWritten ==
  \A p \in DOMAIN files : p[3] \notin {extension, "wav"} => files[p] = "full"

\* C6: in a converting run, a file that starts with a temporary artifact and no
\* final output has the artifact deleted before anything else is done for it,
\* and its transcode or copy is attempted exactly once.
C6_CrashRecovery ==
  (AllWorkersDone /\ Converting) =>
    \A f \in FilesOf(tree) :
      (Recognised(f) /\ WrkOf(f) \in DOMAIN files0 /\ FinalOf(f) \notin DOMAIN files0) =>
        /\ oplog[f] # << >>
        /\ Head(oplog[f]) = "rm_failed_wrk"
        /\ Count(oplog[f], AttemptEvents) = 1

\* C7: exactly-once delivery.  No item of the stream is dequeued twice; the
\* items enqueued so far are exactly the first pidx - 1 items of the stream,
\* each of them either still in the queue (once) or dequeued (once), so the
\* retry on queue.Full neither repeats nor skips an item; and when all workers
\* have exited the queue is empty and every enqueued item was dequeued.
C7_ExactlyOnceDelivery ==
  /\ \A i \in DOMAIN delivered : delivered[i] <= 1
  /\ \A i \in DOMAIN delivered :
       (i < pidx) <=> (delivered[i] = 1 \/ i \in Range(files_q))
  /\ \A i \in DOMAIN delivered : ~(delivered[i] = 1 /\ i \in Range(files_q))
  /\ \A j, k \in 1..Len(files_q) : files_q[j] = files_q[k] => j = k
  /\ AllWorkersDone =>
       /\ files_q = << >>
       /\ \A i \in DOMAIN delivered : i < pidx => delivered[i] = 1

\* C7's case: two workers and a queue of capacity one have passed two batches
\* and two SENTINELs, and both workers have exited.
C7_Witness ==
  /\ AllWorkersDone
  /\ args.num_workers >= 2
  /\ args.queue_size = 1
  /\ Len(tree) = 2
  /\ pidx = StreamLen + 1

\* C8: at completion every error record the workers accumulated has been
\* printed exactly once, in every run mode.
C8_ErrorsPrintedOnce ==
  (AllWorkersDone /\ ppc = "exited") =>
    \A r \in Range(printed) \cup Range(AllErrors(1)) :
      Count(printed, {r}) = Count(AllErrors(1), {r})

\* C9: after a complete converting run on an empty output root in which no
\* tool failed, every transcodable input has its encoded output, every
\* copyable input has its copy, and the transcodes_done total is the number of
\* transcodable inputs.
C9_FreshRunConvertsAll ==
  (AllWorkersDone /\ Converting /\ DOMAIN files0 = {} /\ FaultFree) =>
    /\ \A f \in FilesOf(tree) :
         Recognised(f) => (FinalOf(f) \in DOMAIN files /\ files[FinalOf(f)] = "full")
    /\ \A f \in FilesOf(tree) : f[3] \in IMAGE_EXT => Count(oplog[f], {"copy_ok"}) = 1
    /\ SumTranscodes(1) = NumTodo(tree)

\* C10: with --dry-run no step creates, deletes, renames or writes a file or
\* a directory, whatever the other flags.
C10_DryRunChangesNothing ==
  [][ args.dry_run => (files' = files /\ dirs' = dirs) ]_vars

\* C11: a status mailbox never holds more than one snapshot; two sends in
\* succession before any receive leave exactly one deliverable snapshot, the
\* second; and a receive returns the latest snapshot sent, each snapshot at
\* most once and in the order sent.
C11_MailboxOverwrite ==
  /\ Len(buffer) + Len(pipe) <= 1
  /\ (spc = "idle" /\ sent >= 2 /\ received = << >>) => buffer \o pipe = << sent >>
  /\ last_get[1] # 0 => last_get[1] = last_get[2]
  /\ \A j, k \in 1..Len(received) : j < k => received[j] < received[k]

\* C12: the producer enqueues exactly num_workers SENTINELs, all of them after
\* the last batch: never more than num_workers, all num_workers of them once
\* the producer has ended, never one while a batch is not yet enqueued; and no
\* worker dequeues a SENTINEL while a batch is still not dequeued.
C12_SentinelsAfterBatches ==
  /\ pidx <= StreamLen + 1
  /\ \A k \in 1..Len(files_q) : files_q[k] < pidx
  /\ \A j, k \in 1..Len(files_q) : j < k => files_q[j] < files_q[k]
  /\ ppc \in {"exited", "crashed"} => pidx = StreamLen + 1
  /\ \A i, j \in DOMAIN delivered :
       (IsSentinel(i) /\ ~IsSentinel(j) /\ delivered[i] >= 1) => delivered[j] >= 1

\* the output tree is what a run in which every file succeeded leaves: the
\* final output of every input file of a recognised kind, and nothing else
AfterFullRun ==
  /\ FilesOf(tree) # {}
  /\ DOMAIN files0 = { FinalOf(f) : f \in { g \in FilesOf(tree) : Recognised(g) } }
  /\ \A p \in DOMAIN files0 : files0[p] = "full"

\* an invocation of faad
DemuxEvents == {"faad_ok", "faad_fail"}

\* C13: idempotence.  A run that starts from the output of a fully successful
\* run on the same input invokes lame, faad and shutil.copy2 zero times and
\* leaves the files and the directories of the output tree as they were.
C13_RerunIsIdempotent ==
  AfterFullRun =>
    /\ files = files0
    /\ dirs = InitDirs(files0, TRUE)
    /\ \A f \in FilesOf(tree) : Count(oplog[f], AttemptEvents \cup DemuxEvents) = 0

\* C13's case: a converting rerun over a converted tree with an m4a and an mp3
\* input (or an mp3 and a copied image) has gone through every batch.
C13_Witness ==
  /\ AfterFullRun
  /\ Converting
  /\ AllWorkersDone
  /\ \E f \in FilesOf(tree) : f[3] \in FAAD_EXT \cup IMAGE_EXT
  /\ \A f \in FilesOf(tree) : Recognised(f) => Count(oplog[f], {"skip"}) = 1

\* C14: when the tools have finished for a file and its .wrk path does not
\* exist, whatever exit status was reported, the worker appends exactly one
\* transcode_error record for that file, creates no final output for it, and
\* goes on to the next file of the batch (or, after the last, to the queue
\* with the batch completed).
C14_MissingWrkIsTranscodeError ==
  [][ \A w \in Workers :
        (wpc[w] = "finish" /\ wpc'[w] # "finish"
           /\ WrkOf(CurFile(w)) \notin DOMAIN files) =>
          /\ errors'[w] = Append(errors[w],
                 ErrorRecord("transcode_error", CurFile(w), "Transcode failed"))
          /\ FinalOf(CurFile(w)) \notin DOMAIN files'
          /\ oplog'[CurFile(w)][Len(oplog'[CurFile(w)])] = "transcode_error"
          /\ fidx[w] < Len(tree[item[w]].files) =>
               (wpc'[w] = "file" /\ item'[w] = item[w] /\ fidx'[w] = fidx[w] + 1) ]_vars

\* the input files of batch i, and every path a worker may write, delete or
\* rename for them: outf, the final output, the .wrk file, the faad .wav
BatchFiles(i) ==
  { << tree[i].dir, tree[i].files[j][1], tree[i].files[j][2] >> :
      j \in 1..Len(tree[i].files) }

OutPaths(i) == UNION { {f, FinalOf(f), WrkOf(f), WavOf(f)} : f \in BatchFiles(i) }

\* C15: no double assignment.  The output paths of any two batches are
\* disjoint, no batch is handed to two workers, and at no time do two workers
\* hold batches with a common output path.
C15_NoDoubleAssignment ==
  /\ \A i, j \in 1..Len(tree) : i # j => OutPaths(i) \cap OutPaths(j) = {}
  /\ \A i \in 1..Len(tree) : delivered[i] <= 1
  /\ \A v, w \in Workers :
       (v # w /\ item[v] # 0 /\ item[w] # 0) =>
         OutPaths(item[v]) \cap OutPaths(item[w]) = {}

\* C15's case: two workers are inside the file loops of their batches at the
\* same time, one of them about to finalize a file.
C15_Witness ==
  \E v, w \in Workers :
    /\ v # w
    /\ wpc[v] = "finish"
    /\ wpc[w] \in {"file", "finish"}
    /\ item[v] # 0
    /\ item[w] # 0

\* an invocation of faad, lame or shutil.copy2, or a rename to a final path
ConvertEvents == AttemptEvents \cup DemuxEvents \cup {"rename"}

\* C16: with --clean no step creates a directory, invokes faad, lame or
\* shutil.copy2, or renames anything to a final path, and the only files a
\* step removes are .wrk files and faad .wav intermediates.
C16_CleanOnlyRemovesStale ==
  [][ args.clean =>
        /\ dirs' = dirs
        /\ DOMAIN files' \subseteq DOMAIN files
        /\ \A p \in DOMAIN files : p \notin DOMAIN files' => p[3] \in {extension, "wav"}
        /\ \A p \in DOMAIN files' : files'[p] = files[p]
        /\ \A f \in FilesOf(tree) :
             Count(oplog'[f], ConvertEvents) = Count(oplog[f], ConvertEvents) ]_vars

\* C17: the work queue never holds more than queue_size items; while it is
\* full no step makes it grow, and the producer, whose put times out with
\* queue.Full, stays at the same item of its stream.
C17_QueueCapacityBound ==
  [][ /\ Len(files_q) <= args.queue_size
      /\ Len(files_q') <= args.queue_size
      /\ Len(files_q) = args.queue_size =>
           (Len(files_q') <= Len(files_q) /\ pidx' = pidx) ]_vars

\* C17's case: the queue is full, at the larger capacity, while the producer
\* is in its loop with an item still to put.
C17_Witness ==
  /\ ppc = "loop"
  /\ pidx <= StreamLen
  /\ args.queue_size = MaxQueue
  /\ Len(files_q) = args.queue_size

\* C18: setup errors fail fast.  When the input root does not exist or is the
\* output root, the producer and the workers are never started and nothing is
\* ever put on the work queue (nor, then, dequeued or converted).
C18_SetupFailsFast ==
  indir \in {"missing", "same"} =>
    /\ ppc \in {"init", "failed"}
    /\ \A w \in Workers : wpc[w] = "idle"
    /\ files_q = << >>
    /\ pidx = 1
    /\ \A i \in DOMAIN delivered : delivered[i] = 0
    /\ files = files0

\* C18's case: checkArgs has raised because indir and outdir are the same
\* directory.
C18_Witness ==
  /\ indir = "same"
  /\ ppc = "failed"
  /\ "." \in dirs

\* C19: creating a batch's output directory tolerates "already exists": the
\* create call of a worker that found the directory missing succeeds even if
\* another worker has made the directory since, no error is recorded, and the
\* worker goes on to the first file of the batch.
C19_MakedirsToleratesExisting ==
  [][ \A w \in Workers :
        (wpc[w] = "makedirs" /\ wpc'[w] # "makedirs") =>
          /\ tree[item[w]].dir \in dirs'
          /\ errors'[w] = errors[w]
          /\ wpc'[w] = "file"
          /\ item'[w] = item[w]
          /\ fidx'[w] = 1 ]_vars

\* C20: in a run without --dry-run over a fully converted tree every
\* transcodable input (mp3, wav, m4a) is skipped and counted once: when the
\* workers are through, no file has changed and the transcodes_done total is
\* the number of transcodable inputs, num_todo.
C20_SkippedFilesAreCounted ==
  (AllWorkersDone /\ ~args.dry_run /\ AfterFullRun) =>
    /\ files = files0
    /\ \A f \in FilesOf(tree) : Recognised(f) => oplog[f] = << "skip" >>
    /\ SumTranscodes(1) = NumTodo(tree)

\* the snapshot a worker sends on its SENTINEL: its errors, finished = True
FinalSnapshot(w) == Snapshot(w, transcodes_done[w], TRUE, "errors", errors[w])

\* C21: a worker that has dequeued its SENTINEL has sent its errors in a
\* snapshot with finished = True and has left its loop; that snapshot is the
\* last it sends, so it stays in the worker's _StateQueue, not overwritten,
\* until the producer has received it.
C21_FinalSnapshotDeliverable ==
  \A w \in Workers :
    wpc[w] = "done" =>
      /\ finished[w]
      /\ \/ info_q[w] = << FinalSnapshot(w) >>
         \/ worker_states[w] = << FinalSnapshot(w) >>

\* C22: the producer's num_done never exceeds num_todo; no step lowers a
\* worker's transcodes_done, a step raises it by at most one and only for a
\* transcodable input, the file the worker is at; and the workers' total
\* never exceeds the number of transcodable inputs.
C22_ProgressWithinTotal ==
  [][ /\ num_done <= num_todo
      /\ num_done' <= num_todo'
      /\ SumTranscodes(1)' <= NumTodo(tree)
      /\ \A w \in Workers :
           /\ transcodes_done'[w] >= transcodes_done[w]
           /\ transcodes_done'[w] <= transcodes_done[w] + 1
           /\ transcodes_done'[w] # transcodes_done[w] =>
                (wpc[w] = "file" /\ CurFile(w)[3] \in TRANS_EXT) ]_vars

\* C22's case: the dashboard has counted every one of at least two
\* transcodable inputs, one of them skipped as complete or failed.
C22_Witness ==
  /\ do_curses
  /\ num_todo >= 2
  /\ num_done = num_todo
  /\ \E f \in FilesOf(tree) :
       Count(oplog[f], {"skip", "lame_fail", "lame_ok_nofile"}) >= 1

\* C23: whatever keys are pressed and however the rendered text changes its
\* size, the viewport stays in range: 0 <= row <= max(0, pad_h - win_h) and
\* 0 <= col <= max(0, pad_w - win_w).
C23_ViewportInRange ==
  /\ 0 <= row
  /\ row <= Max(0, pad_h - win_h)
  /\ 0 <= col
  /\ col <= Max(0, pad_w - win_w)

====
